---- MODULE Spec2Model ----
(***************************************************************************)
(* The ULPIN land registry programs of gujarat-landchain:                  *)
(*   - treasury  (programs/treasury/src/lib.rs): register, verify, mint,   *)
(*     update ownership of a land parcel;                                  *)
(*   - freeze    (programs/treasury/src/freeze_contract.rs): time-locked   *)
(*     freeze and thaw of the parcel's token account;                      *)
(*   - bridge    (programs/bridge/src/lib.rs): two-phase transfer record.  *)
(* Every instruction is one atomic step: a failing instruction (a          *)
(* require!, a failed CPI, a panic) leaves every account as it was.        *)
(***************************************************************************)
EXTENDS Integers, Sequences, FiniteSets, TLC

\* ------------------------------------------------------------------ bounds
\* Width in bits of the model's machine words: u64 and i64 are modelled with
\* WordBits bits (TLC's integers are 32 bits wide), wrapping "% 2^WordBits".
WordBits == 20
\* The clock runs from 1 to MaxTime.
MaxTime == 2
\* The fee tokens the payer holds at the start.
InitialUserBalance == 150000

U64Modulus == 2 ^ WordBits
U64Max == U64Modulus - 1
I64Max == 2 ^ (WordBits - 1) - 1
I64Min == -(2 ^ (WordBits - 1))

\* ------------------------------------------------------- program constants
MaxUlpinLen == 64
MaxLabelLen == 32
SeedLen == 32
MaxMetadataUriLen == 200
base_fee == 100000
per_sqm_fee == 10

\* ----------------------------------------------------------------- helpers
Rep(b, n) == [i \in 1..n |-> b]

\* Option<i64>
None == <<>>
Some(v) == <<v>>
\* (mutant) an absent value defaults to i64::MAX, whatever default is passed.
unwrap_or_max(o, d) == IF o = None THEN I64Max ELSE o[1]
unwrap_or(o, d) == IF o = None THEN d ELSE o[1]

\* let mut bytes = [0u8; n]; bytes[..s.len()].copy_from_slice(s.as_bytes())
ZeroPad(s, n) == [i \in 1..n |-> IF i <= Len(s) THEN s[i] ELSE 0]

\* The position of the first byte of s other than NUL (Len(s) + 1 if none).
FirstNonNul(s) ==
    CHOOSE i \in 1..(Len(s) + 1) :
        /\ i = Len(s) + 1 \/ s[i] # 0
        /\ \A j \in 1..(i - 1) : s[j] = 0
\* The position of the last byte of s other than NUL (0 if none).
LastNonNul(s) ==
    CHOOSE i \in 0..Len(s) :
        /\ i = 0 \/ s[i] # 0
        /\ \A j \in (i + 1)..Len(s) : s[j] = 0
\* String::from_utf8_lossy(&bytes).trim_matches('\0').to_string(): the bytes
\* without their leading and trailing NULs.
trim_matches_nul(bytes) == SubSeq(bytes, FirstNonNul(bytes), LastNonNul(bytes))

\* seeds = [b"land_parcel", &ulpin_id.as_bytes()[..32]]: the account address
\* is a function of the first SeedLen bytes alone.
land_parcel_seed(ulpin_id) == SubSeq(ulpin_id, 1, SeedLen)

\* ------------------------------------------------------------------ inputs
IdShort == <<97, 98, 99>>
IdA == Rep(97, SeedLen)
IdA2 == Rep(97, SeedLen) \o <<120>>
IdB == Rep(98, MaxUlpinLen)
IdLong == Rep(99, MaxUlpinLen + 1)
IdLongA == Rep(97, MaxUlpinLen + 1)

AreaMulOverflow == U64Modulus \div per_sqm_fee + 1

LabelOk == Rep(100, 2)
LabelLong == Rep(100, MaxLabelLen + 1)

RegisterInput(ulpin_id, area_sqm, village, owner_pubkey) ==
    [ulpin_id |-> ulpin_id, area_sqm |-> area_sqm, district |-> LabelOk,
     taluka |-> LabelOk, village |-> village, owner_pubkey |-> owner_pubkey]

\* The calls of register_land_parcel the model makes.
RegisterInputs ==
    { RegisterInput(IdA, 500, LabelOk, "alice"),
      RegisterInput(IdA2, 500, LabelOk, "bob"),
      RegisterInput(IdB, AreaMulOverflow, LabelOk, "bob"),
      RegisterInput(IdShort, 500, LabelOk, "alice"),
      RegisterInput(IdLong, 500, LabelOk, "alice"),
      RegisterInput(IdLongA, 500, LabelOk, "alice"),
      RegisterInput(IdB, 0, LabelOk, "alice"),
      RegisterInput(IdLong, 0, LabelLong, "bob"),
      RegisterInput(IdB, 500, LabelLong, "alice") }

ParcelAddresses == {land_parcel_seed(IdA), land_parcel_seed(IdB)}
UlpinArgs == {IdB}
Owners == {"alice", "bob"}
Signers == {"authority", "mallory"}
MetadataUris == {Rep(117, MaxMetadataUriLen), Rep(117, MaxMetadataUriLen + 1)}
NftMints == {"nft_mint"}
NftTokenAccounts == {"ta1", "ta2"}
Durations == {0, 1, I64Max}
Senders == {"s1", "s2"}
Amounts == {0, 50}

\* ------------------------------------------------------------------- state
VARIABLES
    overflow_checks,  \* build profile: TRUE = arithmetic overflow panics, FALSE = it wraps
    now,              \* Clock::get()?.unix_timestamp
    treasury,         \* the Treasury account
    land_parcels,     \* address -> LandParcel account, for the accounts created so far
    token_balance,    \* the fee token accounts: [user |-> n, treasury |-> n]
    frozen,           \* the token accounts the token program holds frozen
    bridge,           \* the Bridge account
    transfers,        \* sender -> CrossChainTransferData account, for the accounts created so far
    emitted,          \* the events emitted by the last instruction
    result            \* the last instruction and what it returned

vars == <<overflow_checks, now, treasury, land_parcels, token_balance, frozen,
          bridge, transfers, emitted, result>>

treasury_vars == <<treasury, land_parcels, token_balance, frozen>>
bridge_vars == <<bridge, transfers>>

\* An instruction that returns Err (or panics): the runtime discards every write.
Reject(op, signer, target, err) ==
    /\ result' = [op |-> op, signer |-> signer, target |-> target, err |-> err]
    /\ emitted' = <<>>
    /\ UNCHANGED <<overflow_checks, now, treasury_vars, bridge_vars>>

Accept(op, signer, target, events) ==
    /\ result' = [op |-> op, signer |-> signer, target |-> target, err |-> "Ok"]
    /\ emitted' = events
    /\ UNCHANGED <<overflow_checks, now>>

\* Unsigned 64-bit arithmetic: x is the true value of the expression.
overflows_u64(x) == x > U64Max
wrap_u64(x) == x % U64Modulus
\* Signed 64-bit arithmetic.
overflows_i64(x) == x > I64Max \/ x < I64Min
wrap_i64(x) == ((x - I64Min) % U64Modulus) + I64Min

\* ------------------------------------------------------------ construction
initialize_treasury ==
    treasury = [authority |-> "authority", treasury_bump |-> 255,
                total_fees_collected |-> 0, land_parcel_count |-> 0,
                is_active |-> TRUE]

initialize_bridge ==
    bridge = [authority |-> "authority", bridge_bump |-> 255,
              total_transfers |-> 0, is_active |-> TRUE]

Init ==
    /\ overflow_checks \in BOOLEAN
    /\ now = 1
    /\ initialize_treasury
    /\ initialize_bridge
    /\ land_parcels = <<>>
    /\ token_balance = [user |-> InitialUserBalance, treasury |-> 0]
    /\ frozen = {}
    /\ transfers = <<>>
    /\ emitted = <<>>
    /\ result = [op |-> "initialize", signer |-> "authority", target |-> "none", err |-> "Ok"]

\* The cluster clock advances.
Tick ==
    /\ now < MaxTime
    /\ now' = now + 1
    /\ UNCHANGED <<overflow_checks, treasury_vars, bridge_vars, emitted, result>>

\* ---------------------------------------------------------------- treasury
\* (mutant) init_if_needed in place of init: an existing account is handed to
\* the handler again.
RegisterLandParcel_if_needed(ulpin_id) ==
    IF Len(ulpin_id) < SeedLen THEN "ProgramFailedToComplete" ELSE "Ok"

\* #[account(init, seeds = [b"land_parcel", &ulpin_id.as_bytes()[..32]], bump)]:
\* the constraints run before the handler; slicing an identifier shorter than
\* SeedLen bytes panics, and init fails on an address that already holds an
\* account.
RegisterLandParcel(ulpin_id) ==
    IF Len(ulpin_id) < SeedLen THEN "ProgramFailedToComplete"
    ELSE IF land_parcel_seed(ulpin_id) \in DOMAIN land_parcels THEN "AccountAlreadyInUse"
    ELSE "Ok"

\* The require! checks of register_land_parcel, in order.
register_requires(ulpin_id, area_sqm) ==
    IF ~(Len(ulpin_id) <= MaxUlpinLen) THEN "InvalidULPINLength"
    ELSE IF ~(area_sqm > 0) THEN "InvalidArea"
    ELSE "Ok"

\* district_bytes[..district.len()].copy_from_slice(..): the slice panics on a
\* label longer than the array.
labels_fit(district, taluka, village) ==
    /\ Len(district) <= MaxLabelLen
    /\ Len(taluka) <= MaxLabelLen
    /\ Len(village) <= MaxLabelLen

\* (mutant) the counter is left as it was.
next_land_parcel_count_kept(count) == count

\* treasury.land_parcel_count += 1
next_land_parcel_count(count) == wrap_u64(count + 1)

\* The account as register_land_parcel leaves it: the fields it does not assign
\* keep the zeroed bytes of the fresh account (None for an Option).
new_land_parcel(ulpin_id, area_sqm, district, taluka, village, owner_pubkey) ==
    [ulpin_id |-> ZeroPad(ulpin_id, MaxUlpinLen),
     area_sqm |-> area_sqm,
     district |-> ZeroPad(district, MaxLabelLen),
     taluka |-> ZeroPad(taluka, MaxLabelLen),
     village |-> ZeroPad(village, MaxLabelLen),
     owner |-> owner_pubkey,
     registration_timestamp |-> now,
     is_verified |-> FALSE,
     nft_minted |-> FALSE,
     freeze_start_timestamp |-> None,
     freeze_duration |-> None]

register_land_parcel(ulpin_id, area_sqm, district, taluka, village, owner_pubkey) ==
    LET op == "register_land_parcel"
        target == IF Len(ulpin_id) < SeedLen THEN <<>> ELSE land_parcel_seed(ulpin_id)
        acct == RegisterLandParcel(ulpin_id)
        req == register_requires(ulpin_id, area_sqm)
        parcel == new_land_parcel(ulpin_id, area_sqm, district, taluka, village, owner_pubkey)
    IN  IF acct # "Ok" THEN Reject(op, "authority", target, acct)
        ELSE IF req # "Ok" THEN Reject(op, "authority", target, req)
        ELSE IF ~labels_fit(district, taluka, village)
            THEN Reject(op, "authority", target, "ProgramFailedToComplete")
        ELSE IF overflow_checks /\ overflows_u64(treasury.land_parcel_count + 1)
            THEN Reject(op, "authority", target, "ProgramFailedToComplete")
        ELSE /\ land_parcels' = (target :> parcel) @@ land_parcels
             /\ treasury' = [treasury EXCEPT !.land_parcel_count = next_land_parcel_count(@)]
             /\ UNCHANGED <<token_balance, frozen, bridge_vars>>
             /\ Accept(op, "authority", target,
                       <<[event |-> "LandParcelRegistered", ulpin_id |-> ulpin_id,
                          owner |-> parcel.owner, area_sqm |-> parcel.area_sqm,
                          registration_timestamp |-> parcel.registration_timestamp]>>)

\* (mutant) verify_land_parcel without its check.
verify_requires_any(parcel) == "Ok"

\* require!(!land_parcel.is_verified, ErrorCode::AlreadyVerified)
verify_requires(parcel) ==
    IF ~(~parcel.is_verified) THEN "AlreadyVerified" ELSE "Ok"

verify_land_parcel(signer, acct, ulpin_id) ==
    LET op == "verify_land_parcel" IN
    IF acct \notin DOMAIN land_parcels THEN Reject(op, signer, acct, "AccountNotInitialized")
    ELSE LET req == verify_requires(land_parcels[acct]) IN
        IF req # "Ok" THEN Reject(op, signer, acct, req)
        ELSE /\ land_parcels' = [land_parcels EXCEPT ![acct].is_verified = TRUE]
             /\ UNCHANGED <<treasury, token_balance, frozen, bridge_vars>>
             /\ Accept(op, signer, acct,
                       <<[event |-> "LandParcelVerified", ulpin_id |-> ulpin_id,
                          verifier |-> signer, verification_timestamp |-> now]>>)

\* (mutant) mint_land_nft without its is_verified check.
mint_requires_unverified(parcel, metadata_uri) ==
    IF ~(Len(metadata_uri) <= MaxMetadataUriLen) THEN "InvalidMetadataURI"
    ELSE IF ~(~parcel.nft_minted) THEN "NFTAlreadyMinted"
    ELSE "Ok"

\* The require! checks of mint_land_nft, in order.
mint_requires(parcel, metadata_uri) ==
    IF ~(Len(metadata_uri) <= MaxMetadataUriLen) THEN "InvalidMetadataURI"
    ELSE IF ~(~parcel.nft_minted) THEN "NFTAlreadyMinted"
    ELSE IF ~parcel.is_verified THEN "LandNotVerified"
    ELSE "Ok"

\* let area_fee = (land_parcel.area_sqm as u64) * 10;
area_fee_of(area_sqm) == area_sqm * per_sqm_fee
\* let total_fee = base_fee + area_fee;  (on the u64 value of area_fee)
total_fee_of(area_sqm) == base_fee + wrap_u64(area_fee_of(area_sqm))
\* The fee the handler holds in total_fee.
mint_fee(area_sqm) == wrap_u64(total_fee_of(area_sqm))
mint_fee_overflows(area_sqm) ==
    overflows_u64(area_fee_of(area_sqm)) \/ overflows_u64(total_fee_of(area_sqm))

\* token::transfer(cpi_ctx, total_fee): the token program moves the amount from
\* the payer's account to the treasury's, or fails and moves nothing
\* (insufficient funds, overflow of the destination).
token_transfer(balance, amount) ==
    IF balance.user >= amount /\ balance.treasury + amount <= U64Max
    THEN [ok |-> TRUE,
          balance |-> [user |-> balance.user - amount,
                       treasury |-> balance.treasury + amount]]
    ELSE [ok |-> FALSE, balance |-> balance]

\* (mutant) the result of token::transfer(..) is dropped.
transfer_failed_ignored(paid) == FALSE

\* The "?" after token::transfer(..): a failed transfer ends the instruction.
transfer_failed(paid) == ~paid.ok

\* treasury.total_fees_collected += total_fee
add_fees(total, fee) == wrap_u64(total + fee)

mint_land_nft(acct, ulpin_id, metadata_uri, nft_mint) ==
    LET op == "mint_land_nft" IN
    IF acct \notin DOMAIN land_parcels THEN Reject(op, "user", acct, "AccountNotInitialized")
    ELSE LET parcel == land_parcels[acct]
             req == mint_requires(parcel, metadata_uri)
             total_fee == mint_fee(parcel.area_sqm)
             paid == token_transfer(token_balance, total_fee)
         IN
        IF req # "Ok" THEN Reject(op, "user", acct, req)
        ELSE IF overflow_checks /\ mint_fee_overflows(parcel.area_sqm)
            THEN Reject(op, "user", acct, "ProgramFailedToComplete")
        ELSE IF transfer_failed(paid)
            THEN Reject(op, "user", acct, "TokenTransferFailed")
        ELSE IF overflow_checks /\ overflows_u64(treasury.total_fees_collected + total_fee)
            THEN Reject(op, "user", acct, "ProgramFailedToComplete")
        ELSE /\ token_balance' = paid.balance
             /\ land_parcels' = [land_parcels EXCEPT ![acct].nft_minted = TRUE]
             /\ treasury' = [treasury EXCEPT !.total_fees_collected = add_fees(@, total_fee)]
             /\ UNCHANGED <<frozen, bridge_vars>>
             /\ Accept(op, "user", acct,
                       <<[event |-> "NFTMinted", ulpin_id |-> ulpin_id,
                          owner |-> parcel.owner, nft_mint |-> nft_mint,
                          metadata_uri |-> metadata_uri, fee_paid |-> total_fee]>>)

\* The require! checks of update_land_ownership, in order.
update_requires(parcel) ==
    IF ~parcel.is_verified THEN "LandNotVerified"
    ELSE IF ~parcel.nft_minted THEN "NFTNotMinted"
    ELSE "Ok"

\* land_parcel.owner = new_owner; emit!(OwnershipTransferred { previous_owner:
\* land_parcel.owner, .. }): the event reads the field after the assignment.
update_land_ownership(acct, ulpin_id, new_owner) ==
    LET op == "update_land_ownership" IN
    IF acct \notin DOMAIN land_parcels THEN Reject(op, "authority", acct, "AccountNotInitialized")
    ELSE LET req == update_requires(land_parcels[acct])
             updated == [land_parcels[acct] EXCEPT !.owner = new_owner]
         IN
        IF req # "Ok" THEN Reject(op, "authority", acct, req)
        ELSE /\ land_parcels' = [land_parcels EXCEPT ![acct] = updated]
             /\ UNCHANGED <<treasury, token_balance, frozen, bridge_vars>>
             /\ Accept(op, "authority", acct,
                       <<[event |-> "OwnershipTransferred", ulpin_id |-> ulpin_id,
                          previous_owner |-> updated.owner, new_owner |-> new_owner,
                          transfer_timestamp |-> now]>>)

\* ------------------------------------------------------------------ freeze
\* The require! checks shared by freeze_land_nft and thaw_land_nft, in order.
freeze_requires(parcel) ==
    IF ~parcel.is_verified THEN "LandNotVerified"
    ELSE IF ~parcel.nft_minted THEN "NFTNotMinted"
    ELSE "Ok"

\* token::freeze_account(cpi_ctx)?: the token program refuses an account that
\* is already frozen.
freeze_account_ok(token_account) == token_account \notin frozen
\* token::thaw_account(cpi_ctx)?: the token program refuses an account that is
\* not frozen.
thaw_account_ok(token_account) == token_account \in frozen

\* land_parcel.freeze_start_timestamp = Some(clock.unix_timestamp);
\* land_parcel.freeze_duration = Some(duration_seconds);
frozen_land_parcel(parcel, duration_seconds) ==
    [parcel EXCEPT !.freeze_start_timestamp = Some(now),
                   !.freeze_duration = Some(duration_seconds)]

freeze_land_nft(acct, token_account, nft_mint, duration_seconds) ==
    LET op == "freeze_land_nft" IN
    IF acct \notin DOMAIN land_parcels THEN Reject(op, "none", acct, "AccountNotInitialized")
    ELSE LET parcel == land_parcels[acct]
             req == freeze_requires(parcel)
         IN
        IF req # "Ok" THEN Reject(op, "none", acct, req)
        ELSE IF ~freeze_account_ok(token_account)
            THEN Reject(op, "none", acct, "TokenInvalidState")
        ELSE /\ land_parcels' = [land_parcels EXCEPT
                    ![acct] = frozen_land_parcel(parcel, duration_seconds)]
             /\ frozen' = frozen \cup {token_account}
             /\ UNCHANGED <<treasury, token_balance, bridge_vars>>
             /\ Accept(op, "none", acct,
                       <<[event |-> "NFTFrozen",
                          ulpin_id |-> trim_matches_nul(parcel.ulpin_id),
                          nft_mint |-> nft_mint,
                          freeze_duration |-> duration_seconds]>>)

\* freeze_start + freeze_duration, as the i64 the comparison reads.
freeze_end(freeze_start, freeze_duration) == wrap_i64(freeze_start + freeze_duration)

\* clock.unix_timestamp > freeze_start + freeze_duration
freeze_expired(clock, freeze_start, freeze_duration) ==
    clock > freeze_end(freeze_start, freeze_duration)

\* (mutant) thaw_land_nft clears the start and forgets the duration.
thawed_land_parcel_partial(parcel) ==
    [parcel EXCEPT !.freeze_start_timestamp = None]

\* land_parcel.freeze_start_timestamp = None; land_parcel.freeze_duration = None;
thawed_land_parcel(parcel) ==
    [parcel EXCEPT !.freeze_start_timestamp = None, !.freeze_duration = None]

thaw_land_nft(acct, token_account, nft_mint) ==
    LET op == "thaw_land_nft" IN
    IF acct \notin DOMAIN land_parcels THEN Reject(op, "none", acct, "AccountNotInitialized")
    ELSE LET parcel == land_parcels[acct]
             req == freeze_requires(parcel)
             freeze_start == unwrap_or(parcel.freeze_start_timestamp, 0)
             freeze_duration == unwrap_or(parcel.freeze_duration, 0)
         IN
        IF req # "Ok" THEN Reject(op, "none", acct, req)
        ELSE IF overflow_checks /\ overflows_i64(freeze_start + freeze_duration)
            THEN Reject(op, "none", acct, "ProgramFailedToComplete")
        ELSE IF ~freeze_expired(now, freeze_start, freeze_duration)
            THEN Reject(op, "none", acct, "FreezePeriodNotExpired")
        ELSE IF ~thaw_account_ok(token_account)
            THEN Reject(op, "none", acct, "TokenInvalidState")
        ELSE /\ land_parcels' = [land_parcels EXCEPT
                    ![acct] = thawed_land_parcel(parcel)]
             /\ frozen' = frozen \ {token_account}
             /\ UNCHANGED <<treasury, token_balance, bridge_vars>>
             /\ Accept(op, "none", acct,
                       <<[event |-> "NFTThawed",
                          ulpin_id |-> trim_matches_nul(parcel.ulpin_id),
                          nft_mint |-> nft_mint]>>)

\* ------------------------------------------------------------------ bridge
\* (mutant) init_if_needed in place of init: an existing transfer account is
\* handed to the handler again.
CrossChainTransfer_if_needed(sender) == "Ok"

\* #[account(init, seeds = [b"transfer", sender.key().as_ref()], bump)]: one
\* address per sender; init fails on an address that already holds an account.
CrossChainTransfer(sender) ==
    IF sender \in DOMAIN transfers THEN "AccountAlreadyInUse" ELSE "Ok"

\* The bytes of the account init creates: all zero, which deserialize to the
\* first variant of TransferStatus and to None.
zeroed_transfer ==
    [amount |-> 0, sender |-> "11111111", timestamp |-> 0,
     status |-> "Pending", confirmation_timestamp |-> None]

\* require!(amount > 0, ErrorCode::InvalidAmount)
transfer_requires(amount) ==
    IF ~(amount > 0) THEN "InvalidAmount" ELSE "Ok"

\* (mutant) the counter is left as it was.
next_total_transfers_kept(count) == count

\* bridge.total_transfers += 1
next_total_transfers(count) == wrap_u64(count + 1)

\* The fields cross_chain_transfer assigns.
initiated_transfer(transfer, sender, amount) ==
    [transfer EXCEPT !.amount = amount, !.sender = sender,
                     !.timestamp = now, !.status = "Pending"]

cross_chain_transfer(sender, amount) ==
    LET op == "cross_chain_transfer"
        acct == CrossChainTransfer(sender)
        req == transfer_requires(amount)
        transfer == initiated_transfer(zeroed_transfer, sender, amount)
    IN  IF acct # "Ok" THEN Reject(op, sender, sender, acct)
        ELSE IF req # "Ok" THEN Reject(op, sender, sender, req)
        ELSE IF overflow_checks /\ overflows_u64(bridge.total_transfers + 1)
            THEN Reject(op, sender, sender, "ProgramFailedToComplete")
        ELSE /\ transfers' = (sender :> transfer) @@ transfers
             /\ bridge' = [bridge EXCEPT !.total_transfers = next_total_transfers(@)]
             /\ UNCHANGED treasury_vars
             /\ Accept(op, sender, sender,
                       <<[event |-> "CrossChainTransferInitiated",
                          amount |-> transfer.amount, sender |-> transfer.sender,
                          transfer_id |-> sender]>>)

\* (mutant) confirm_transfer without its status check.
confirm_requires_any(transfer) == "Ok"

\* require!(transfer.status == TransferStatus::Pending, ErrorCode::TransferNotPending)
confirm_requires(transfer) ==
    IF ~(transfer.status = "Pending") THEN "TransferNotPending" ELSE "Ok"

\* (mutant) confirm_transfer sets the status and forgets the timestamp.
confirmed_transfer_untimed(transfer) == [transfer EXCEPT !.status = "Completed"]

\* The fields confirm_transfer assigns.
confirmed_transfer(transfer) ==
    [transfer EXCEPT !.status = "Completed", !.confirmation_timestamp = Some(now)]

confirm_transfer(signer, acct) ==
    LET op == "confirm_transfer" IN
    IF acct \notin DOMAIN transfers THEN Reject(op, signer, acct, "AccountNotInitialized")
    ELSE LET req == confirm_requires(transfers[acct])
             transfer == confirmed_transfer(transfers[acct])
         IN
        IF req # "Ok" THEN Reject(op, signer, acct, req)
        ELSE /\ transfers' = [transfers EXCEPT ![acct] = transfer]
             /\ UNCHANGED <<bridge, treasury_vars>>
             /\ Accept(op, signer, acct,
                       <<[event |-> "CrossChainTransferCompleted",
                          transfer_id |-> acct,
                          completion_timestamp |-> unwrap_or(transfer.confirmation_timestamp, 0)]>>)

\* ------------------------------------------------------------ specification
Register ==
    \E i \in RegisterInputs :
        register_land_parcel(i.ulpin_id, i.area_sqm, i.district, i.taluka,
                             i.village, i.owner_pubkey)
Verify ==
    \E signer \in Signers, acct \in ParcelAddresses, ulpin_id \in UlpinArgs :
        verify_land_parcel(signer, acct, ulpin_id)
Mint ==
    \E acct \in ParcelAddresses, ulpin_id \in UlpinArgs, metadata_uri \in MetadataUris,
       nft_mint \in NftMints :
        mint_land_nft(acct, ulpin_id, metadata_uri, nft_mint)
UpdateOwnership ==
    \E acct \in ParcelAddresses, ulpin_id \in UlpinArgs, new_owner \in Owners :
        update_land_ownership(acct, ulpin_id, new_owner)
Freeze ==
    \E acct \in ParcelAddresses, token_account \in NftTokenAccounts,
       nft_mint \in NftMints, duration_seconds \in Durations :
        freeze_land_nft(acct, token_account, nft_mint, duration_seconds)
Thaw ==
    \E acct \in ParcelAddresses, token_account \in NftTokenAccounts, nft_mint \in NftMints :
        thaw_land_nft(acct, token_account, nft_mint)
Initiate ==
    \E sender \in Senders, amount \in Amounts : cross_chain_transfer(sender, amount)
Confirm ==
    \E signer \in Signers, acct \in Senders : confirm_transfer(signer, acct)

TreasuryNext == Register \/ Verify \/ Mint \/ UpdateOwnership \/ Freeze \/ Thaw \/ Tick
BridgeNext == Initiate \/ Confirm \/ Tick
Next == TreasuryNext \/ BridgeNext

Spec == Init /\ [][Next]_vars
TreasurySpec == Init /\ [][TreasuryNext]_vars
BridgeSpec == Init /\ [][BridgeNext]_vars

\* The treasury and freeze programs with a clock that keeps advancing (up to
\* MaxTime) and callers that keep attempting each thaw_land_nft call.
ThawFairness ==
    \A acct \in ParcelAddresses, token_account \in NftTokenAccounts, nft_mint \in NftMints :
        WF_vars(thaw_land_nft(acct, token_account, nft_mint))
FreezeLiveSpec == Init /\ [][TreasuryNext]_vars /\ WF_vars(Tick) /\ ThawFairness

\* ------------------------------------------------------------------ claims
\* A step that runs instruction op (the clock's own step leaves result as it was).
Executed(op) == now' = now /\ result'.op = op
Succeeded(op) == Executed(op) /\ result'.err = "Ok"
ExecutedOn(op, acct) == Executed(op) /\ result'.target = acct

is_frozen(parcel) ==
    parcel.freeze_start_timestamp # None \/ parcel.freeze_duration # None

\* C1: in every reachable state every parcel record has nft_minted only if
\* is_verified, and a populated freeze_start or freeze_duration only if both
\* is_verified and nft_minted.
C1_FlagsInvariant ==
    \A a \in DOMAIN land_parcels :
        /\ land_parcels[a].nft_minted => land_parcels[a].is_verified
        /\ is_frozen(land_parcels[a]) =>
              land_parcels[a].is_verified /\ land_parcels[a].nft_minted

\* A parcel went register, verify, mint, freeze: its freeze fields are populated.
C1_Witness ==
    \E a \in DOMAIN land_parcels :
        /\ land_parcels[a].freeze_start_timestamp # None
        /\ land_parcels[a].freeze_duration # None
        /\ land_parcels[a].nft_minted

\* C2: once is_verified is true of a parcel it is true in every later state,
\* and so is nft_minted, whatever instruction follows (a failed one, or
\* register_land_parcel called again with the same identifier).
C2_OneWayFlags ==
    [][\A a \in DOMAIN land_parcels :
          /\ a \in DOMAIN land_parcels'
          /\ land_parcels[a].is_verified => land_parcels'[a].is_verified
          /\ land_parcels[a].nft_minted => land_parcels'[a].nft_minted]_vars

\* register_land_parcel was called again for a verified and minted parcel.
C2_Witness ==
    /\ result.op = "register_land_parcel"
    /\ result.err = "AccountAlreadyInUse"
    /\ result.target \in DOMAIN land_parcels
    /\ land_parcels[result.target].is_verified
    /\ land_parcels[result.target].nft_minted

\* C3: a successful register_land_parcel increases land_parcel_count by exactly
\* 1, and no other step (a failed registration, any other instruction, the
\* clock) changes it.
C3_CountMonotonic ==
    [][IF Succeeded("register_land_parcel")
       THEN treasury'.land_parcel_count = treasury.land_parcel_count + 1
       ELSE treasury'.land_parcel_count = treasury.land_parcel_count]_vars

\* Two registrations succeeded.
C3_Witness ==
    /\ result.op = "register_land_parcel"
    /\ result.err = "Ok"
    /\ treasury.land_parcel_count = 2
    /\ Cardinality(DOMAIN land_parcels) = 2

\* C4: a successful mint_land_nft on a parcel of area a computes
\* fee = 100_000 + 10 * a, moves exactly that fee from the payer to the
\* treasury's token account, adds exactly that fee to total_fees_collected and
\* reports it as fee_paid in NFTMinted.
C4_FeeExact ==
    [][\A a \in DOMAIN land_parcels :
          Succeeded("mint_land_nft") /\ result'.target = a =>
              LET fee == base_fee + per_sqm_fee * land_parcels[a].area_sqm IN
              /\ token_balance'.user = token_balance.user - fee
              /\ token_balance'.treasury = token_balance.treasury + fee
              /\ treasury'.total_fees_collected = treasury.total_fees_collected + fee
              /\ emitted'[1].event = "NFTMinted"
              /\ emitted'[1].fee_paid = fee]_vars

\* What a u64 computation that clamps on overflow would hold.
saturating_u64(x) == IF x > U64Max THEN U64Max ELSE x

\* C5: u64 overflow is never silently wrapped: an instruction whose area * 10,
\* base_fee + area_fee, total_fees_collected + fee, land_parcel_count + 1 or
\* total_transfers + 1 leaves the u64 range is rejected, or the value is
\* clamped; no instruction succeeds holding the true value modulo 2^64.
C5_NoSilentWrap ==
    [][/\ \A a \in DOMAIN land_parcels :
             Succeeded("mint_land_nft") /\ result'.target = a =>
                 LET area_fee == saturating_u64(per_sqm_fee * land_parcels[a].area_sqm)
                     fee == saturating_u64(base_fee + area_fee)
                 IN  /\ emitted'[1].fee_paid = fee
                     /\ treasury'.total_fees_collected =
                            saturating_u64(treasury.total_fees_collected + fee)
       /\ Succeeded("register_land_parcel") =>
             treasury'.land_parcel_count = saturating_u64(treasury.land_parcel_count + 1)
       /\ Succeeded("cross_chain_transfer") =>
             bridge'.total_transfers = saturating_u64(bridge.total_transfers + 1)]_vars

C7_FreezeWindow ==
    [][\A a \in DOMAIN land_parcels :
          (/\ ExecutedOn("thaw_land_nft", a)
           /\ land_parcels[a].freeze_start_timestamp # None
           /\ land_parcels[a].freeze_duration # None) =>
              LET T == land_parcels[a].freeze_start_timestamp[1]
                  d == land_parcels[a].freeze_duration[1]
              IN  IF now <= T + d
                  THEN /\ result'.err # "Ok"
                       /\ land_parcels'[a].freeze_start_timestamp = Some(T)
                       /\ land_parcels'[a].freeze_duration = Some(d)
                  ELSE result'.err = "Ok" =>
                       /\ land_parcels'[a].freeze_start_timestamp = None
                       /\ land_parcels'[a].freeze_duration = None]_vars

\* C8: a transfer record goes (none) -> Pending -> Completed and nowhere else:
\* cross_chain_transfer creates it Pending, with amount > 0; the first
\* confirm_transfer completes it; every later confirm_transfer fails with
\* TransferNotPending and leaves the record as it was; no record is ever
\* Failed, and a Completed record never changes.
C8_TransferLifecycle ==
    [][\A s \in Senders :
          /\ s \notin DOMAIN transfers /\ s \in DOMAIN transfers' =>
                /\ Succeeded("cross_chain_transfer")
                /\ transfers'[s].status = "Pending"
                /\ transfers'[s].amount > 0
          /\ s \in DOMAIN transfers =>
                /\ s \in DOMAIN transfers'
                /\ transfers'[s].status # "Failed"
                /\ transfers[s].status = "Completed" => transfers'[s] = transfers[s]
                /\ transfers'[s].status # transfers[s].status =>
                      /\ transfers[s].status = "Pending"
                      /\ transfers'[s].status = "Completed"
                      /\ Succeeded("confirm_transfer")
                /\ ExecutedOn("confirm_transfer", s) =>
                      IF transfers[s].status = "Pending"
                      THEN result'.err = "Ok" /\ transfers'[s].status = "Completed"
                      ELSE result'.err = "TransferNotPending" /\ transfers'[s] = transfers[s]]_vars

\* confirm_transfer was called on a record that was already Completed.
C8_Witness ==
    /\ result.op = "confirm_transfer"
    /\ result.err = "TransferNotPending"
    /\ result.target \in DOMAIN transfers
    /\ transfers[result.target].status = "Completed"

\* C9: in every reachable state a transfer record has a confirmation_timestamp
\* if and only if its status is Completed; a record cross_chain_transfer has
\* just created has none.
C9_ConfirmedIffCompleted ==
    /\ \A s \in DOMAIN transfers :
          transfers[s].confirmation_timestamp # None <=> transfers[s].status = "Completed"
    /\ result.op = "cross_chain_transfer" /\ result.err = "Ok" =>
          /\ transfers[result.target].status = "Pending"
          /\ transfers[result.target].confirmation_timestamp = None

\* One record is Pending, fresh from cross_chain_transfer, and another is Completed.
C9_Witness ==
    /\ result.op = "cross_chain_transfer"
    /\ result.err = "Ok"
    /\ \E s \in DOMAIN transfers :
          /\ transfers[s].status = "Completed"
          /\ transfers[s].confirmation_timestamp # None

\* The precondition errors the programs declare.
DeclaredErrors ==
    {"InvalidULPINLength", "InvalidArea", "InvalidMetadataURI", "NFTAlreadyMinted",
     "LandNotVerified", "AlreadyVerified", "NFTNotMinted", "FreezePeriodNotExpired",
     "InvalidAmount", "TransferNotPending"}

C11_PreviousOwnerReported ==
    [][\A a \in DOMAIN land_parcels :
          Succeeded("update_land_ownership") /\ result'.target = a =>
              /\ emitted'[1].event = "OwnershipTransferred"
              /\ land_parcels'[a].owner = emitted'[1].new_owner
              /\ emitted'[1].previous_owner = land_parcels[a].owner]_vars

\* C12: a Pending transfer record becomes Completed only through a
\* confirm_transfer signed by bridge.authority; a confirm_transfer signed by
\* anyone else fails and leaves the record Pending.
C12_AuthorityGated ==
    [][\A s \in DOMAIN transfers :
          /\ (transfers[s].status = "Pending" /\ transfers'[s].status = "Completed") =>
                /\ Succeeded("confirm_transfer")
                /\ result'.signer = bridge.authority
          /\ (/\ ExecutedOn("confirm_transfer", s)
              /\ transfers[s].status = "Pending"
              /\ result'.signer # bridge.authority) =>
                /\ result'.err # "Ok"
                /\ transfers'[s].status = "Pending"]_vars

\* A record holds the identifier ulpin_id.
is_registered(ulpin_id) ==
    /\ Len(ulpin_id) <= MaxUlpinLen
    /\ \E a \in DOMAIN land_parcels :
          land_parcels[a].ulpin_id = ZeroPad(ulpin_id, MaxUlpinLen)

\* C13: register_land_parcel keys the record by the whole identifier: a call
\* with an identifier of 1 to 64 bytes that no record holds yet, with area > 0
\* (and labels that fit), succeeds and creates a record beside the existing
\* ones, whatever identifiers are already registered; a call with an identifier
\* a record already holds fails and leaves that record as it was.
C13_KeyedByWholeIdentifier ==
    [][\A i \in RegisterInputs :
          register_land_parcel(i.ulpin_id, i.area_sqm, i.district, i.taluka,
                               i.village, i.owner_pubkey) =>
              IF is_registered(i.ulpin_id)
              THEN /\ result'.err # "Ok"
                   /\ land_parcels' = land_parcels
              ELSE (/\ Len(i.ulpin_id) \in 1..MaxUlpinLen
                    /\ i.area_sqm > 0
                    /\ labels_fit(i.district, i.taluka, i.village)) =>
                       /\ result'.err = "Ok"
                       /\ \A a \in DOMAIN land_parcels :
                             /\ a \in DOMAIN land_parcels'
                             /\ land_parcels'[a] = land_parcels[a]
                       /\ \E a \in DOMAIN land_parcels' \ DOMAIN land_parcels :
                             land_parcels'[a].ulpin_id =
                                 ZeroPad(i.ulpin_id, MaxUlpinLen)]_vars

\* C14: the freeze state machine holds a single lock at a time:
\* freeze_land_nft succeeds only on a parcel whose freeze fields are both
\* absent; on a parcel that is already frozen it does not succeed and leaves
\* the recorded freeze_start and freeze_duration as they were.
C14_SingleLock ==
    [][\A a \in DOMAIN land_parcels :
          ExecutedOn("freeze_land_nft", a) =>
              /\ result'.err = "Ok" =>
                    /\ land_parcels[a].freeze_start_timestamp = None
                    /\ land_parcels[a].freeze_duration = None
              /\ is_frozen(land_parcels[a]) =>
                    /\ result'.err # "Ok"
                    /\ land_parcels'[a].freeze_start_timestamp =
                           land_parcels[a].freeze_start_timestamp
                    /\ land_parcels'[a].freeze_duration =
                           land_parcels[a].freeze_duration]_vars

\* C15: on a verified and minted parcel whose freeze fields are both absent,
\* thaw_land_nft checks the expiry against freeze_start = 0 and
\* freeze_duration = 0: at every clock value now > 0 it is not refused with
\* FreezePeriodNotExpired (it succeeds, unless the token program refuses the
\* token account), and it leaves both freeze fields absent.
C15_ThawWithoutFreeze ==
    [][\A a \in DOMAIN land_parcels :
          (/\ ExecutedOn("thaw_land_nft", a)
           /\ land_parcels[a].is_verified
           /\ land_parcels[a].nft_minted
           /\ land_parcels[a].freeze_start_timestamp = None
           /\ land_parcels[a].freeze_duration = None
           /\ now > 0) =>
              /\ result'.err # "FreezePeriodNotExpired"
              /\ result'.err \in {"Ok", "TokenInvalidState"}
              /\ land_parcels'[a].freeze_start_timestamp = None
              /\ land_parcels'[a].freeze_duration = None]_vars

\* thaw_land_nft ran on a verified and minted parcel with no freeze recorded:
\* it passed the expiry check and was refused only by the token program.
C15_Witness ==
    /\ result.op = "thaw_land_nft"
    /\ result.err = "TokenInvalidState"
    /\ result.target \in DOMAIN land_parcels
    /\ land_parcels[result.target].is_verified
    /\ land_parcels[result.target].nft_minted
    /\ land_parcels[result.target].freeze_start_timestamp = None
    /\ land_parcels[result.target].freeze_duration = None

\* C16: in every reachable state each sender has at most one transfer record
\* with status Pending, and a cross_chain_transfer by a sender whose record is
\* Pending never overwrites it: the call fails, and the record's amount,
\* timestamp and status and bridge.total_transfers are as before.
C16_PendingNotOverwritten ==
    [][/\ \A a, b \in DOMAIN transfers' :
             (/\ transfers'[a].sender = transfers'[b].sender
              /\ transfers'[a].status = "Pending"
              /\ transfers'[b].status = "Pending") => a = b
       /\ \A s \in DOMAIN transfers :
             (ExecutedOn("cross_chain_transfer", s) /\ result'.signer = s
              /\ transfers[s].status = "Pending") =>
                 /\ result'.err # "Ok"
                 /\ transfers'[s].amount = transfers[s].amount
                 /\ transfers'[s].timestamp = transfers[s].timestamp
                 /\ transfers'[s].status = "Pending"
                 /\ bridge'.total_transfers = bridge.total_transfers]_vars

\* A sender whose record is Pending called cross_chain_transfer again, at a
\* later clock value than the record's, and was refused.
C16_Witness ==
    /\ result.op = "cross_chain_transfer"
    /\ result.err = "AccountAlreadyInUse"
    /\ result.target \in DOMAIN transfers
    /\ transfers[result.target].status = "Pending"
    /\ transfers[result.target].timestamp < now

\* C17: in every reachable state every parcel record has freeze_start and
\* freeze_duration both present or both absent; a successful freeze_land_nft
\* sets both in one step, a successful thaw_land_nft clears both in one step,
\* and no other step (a failed call, any other instruction, the clock) changes
\* either field; a record is created with both absent.
C17_FreezeFieldsPaired ==
    [][/\ \A a \in DOMAIN land_parcels' :
             land_parcels'[a].freeze_start_timestamp = None
                 <=> land_parcels'[a].freeze_duration = None
       /\ \A a \in DOMAIN land_parcels' \ DOMAIN land_parcels :
             land_parcels'[a].freeze_start_timestamp = None
       /\ \A a \in DOMAIN land_parcels :
             /\ (Succeeded("freeze_land_nft") /\ result'.target = a) =>
                   /\ land_parcels'[a].freeze_start_timestamp = Some(now)
                   /\ land_parcels'[a].freeze_duration =
                          Some(emitted'[1].freeze_duration)
             /\ (Succeeded("thaw_land_nft") /\ result'.target = a) =>
                   /\ land_parcels'[a].freeze_start_timestamp = None
                   /\ land_parcels'[a].freeze_duration = None
             /\ ~(/\ \/ Succeeded("freeze_land_nft")
                     \/ Succeeded("thaw_land_nft")
                  /\ result'.target = a) =>
                   /\ land_parcels'[a].freeze_start_timestamp =
                          land_parcels[a].freeze_start_timestamp
                   /\ land_parcels'[a].freeze_duration =
                          land_parcels[a].freeze_duration]_vars

\* A parcel was frozen and then thawed: the last instruction is a successful
\* thaw_land_nft and both freeze fields are absent again.
C17_Witness ==
    /\ result.op = "thaw_land_nft"
    /\ result.err = "Ok"
    /\ result.target \in DOMAIN land_parcels
    /\ land_parcels[result.target].freeze_start_timestamp = None
    /\ land_parcels[result.target].freeze_duration = None
    /\ frozen = {}

\* The parcel at address a is frozen with a non-negative duration.
frozen_for(a) ==
    /\ a \in DOMAIN land_parcels
    /\ land_parcels[a].freeze_start_timestamp # None
    /\ land_parcels[a].freeze_duration # None
    /\ land_parcels[a].freeze_duration[1] >= 0

\* The parcel at address a is in the Unfrozen state.
unfrozen(a) ==
    /\ a \in DOMAIN land_parcels
    /\ land_parcels[a].freeze_start_timestamp = None
    /\ land_parcels[a].freeze_duration = None

\* The freeze window of the parcel at a ends at an instant an i64 holds that
\* the clock, which stops at MaxTime, never passes.
ends_after_MaxTime(a) ==
    /\ frozen_for(a)
    /\ ~overflows_i64(land_parcels[a].freeze_start_timestamp[1]
                          + land_parcels[a].freeze_duration[1])
    /\ land_parcels[a].freeze_start_timestamp[1]
           + land_parcels[a].freeze_duration[1] >= MaxTime

\* C18: a freeze is temporary: a parcel frozen at time T with a non-negative
\* duration d, while the clock keeps advancing and thaw_land_nft keeps being
\* attempted, eventually returns to the Unfrozen state with both freeze fields
\* absent, whatever other instructions (further freeze_land_nft calls
\* included) are interleaved. (Stated up to the clock's bound: a window that
\* ends at MaxTime or later is not required to end.)
C18_FreezeTemporary ==
    \A a \in ParcelAddresses :
        frozen_for(a) ~> (unfrozen(a) \/ ends_after_MaxTime(a))

\* C19: transfer records are keyed by the sender alone and never deleted, so a
\* sender initiates at most one transfer over an execution: once the sender's
\* record exists (Pending or Completed) every further cross_chain_transfer by
\* that sender fails and changes nothing, and total_transfers always equals
\* the number of existing records and never exceeds the number of senders.
C19_OneTransferPerSender ==
    [][/\ \A s \in DOMAIN transfers :
             /\ s \in DOMAIN transfers'
             /\ (ExecutedOn("cross_chain_transfer", s) /\ result'.signer = s) =>
                   /\ result'.err # "Ok"
                   /\ transfers' = transfers
                   /\ bridge' = bridge
       /\ bridge.total_transfers = Cardinality(DOMAIN transfers)
       /\ bridge'.total_transfers = Cardinality(DOMAIN transfers')
       /\ bridge'.total_transfers <= Cardinality(Senders)]_vars

\* Every sender has a record, and a sender whose record is Completed called
\* cross_chain_transfer again and was refused.
C19_Witness ==
    /\ result.op = "cross_chain_transfer"
    /\ result.err = "AccountAlreadyInUse"
    /\ result.target \in DOMAIN transfers
    /\ transfers[result.target].status = "Completed"
    /\ DOMAIN transfers = Senders
    /\ bridge.total_transfers = Cardinality(Senders)

\* C20: while a parcel is frozen (freeze_start and freeze_duration populated)
\* its recorded owner cannot change: update_land_ownership on it does not
\* succeed, and no step changes its owner, so the owner at thaw time is the
\* owner at freeze time.
C20_FrozenOwnerFixed ==
    [][\A a \in DOMAIN land_parcels :
          (/\ land_parcels[a].freeze_start_timestamp # None
           /\ land_parcels[a].freeze_duration # None) =>
              /\ ExecutedOn("update_land_ownership", a) => result'.err # "Ok"
              /\ land_parcels'[a].owner = land_parcels[a].owner]_vars

====
